---------------------------- MODULE Spec2Model ----------------------------
(***************************************************************************)
(* Model of the educational-material order analyzer:                       *)
(*   src/classifier.py  product-name classification                        *)
(*   src/app.py         ingestion, revenue potential, report rendering     *)
(*                                                                         *)
(* Text is a sequence of characters.  A character is written as an ASCII   *)
(* string; the legend below gives the character each one stands for.       *)
(*   digits "1".."6", "5"        ASCII digits                              *)
(*   "fw1".."fw6"                full-width digits                         *)
(*   "sp"  ASCII space           "wsp" ideographic space U+3000            *)
(*   "sho" 小  "chu" 中  "taka" 高  "kou" 校  "gaku" 学  "nen" 年  "sei" 生     *)
(*   "tou" 等                                                               *)
(*   "nyu" 入  "shi" 試  "ju" 受  "ken" 験  "tai" 対  "saku" 策  "ka" 過        *)
(*   "kyo" 去  "mon" 問  "choku" 直  "zen" 前  "gou" 合  "kaku" 格  "si" 志     *)
(*   "bou" 望  "shuu" 集                                                     *)
(*   "haru" 春  "natsu" 夏  "fuyu" 冬  "ki" 期  "kisetsu" 季  "kougi" 講        *)
(*   "shin" 新  "yasu" 休  "mi" み                                           *)
(*   "koku" 国  "go" 語  "gen" 現  "dai" 代  "bun" 文  "ko" 古  "kan" 漢        *)
(*   "san" 算  "suu" 数  "ei" 英  "ri" 理  "kamoku" 科  "butsu" 物  "bake" 化   *)
(*   "chi" 地  "sha" 社  "kai" 会  "reki" 歴  "fumi" 史  "ooyake" 公           *)
(*   "tami" 民  "sei2" 政  "ji" 治  "kei" 経  "zai" 済                         *)
(*   "hon" 本  "sou" 総  "matome_ma" ま  "matome_to" と  "matome_me" め        *)
(*   "zenbu" 全  "moku" 目  "fuku" 複  "fukushuu" 復  "narau" 習  "suberu" 統   *)
(*   katakana "SU" ス "PU" プ "RI" リ "N" ン "GU" グ "KU" ク "SA" サ "MA" マ     *)
(*     "U" ウ "smallI" ィ "I" イ "TA" タ "SE" セ "smallTSU" ッ "TO" ト "PA" パ   *)
(*     "O" オ "RU" ル  "DASH" ー (long-vowel mark U+30FC)                     *)
(*   half-width katakana "hSA" ｻ "hMA" ﾏ "hDASH" ｰ "hSU" ｽ "hFU" ﾌ            *)
(*     "hHANDAKU" ﾟ "hRI" ﾘ "hN" ﾝ "hKU" ｸ "hDAKU" ﾞ "hU" ｳ "hsmallI" ｨ       *)
(*     "hI" ｲ "hTA" ﾀ                                                        *)
(*   "minus" U+2212  "hbar" U+2015  "hyphen" U+2010                          *)
(*   Latin letters are themselves ("s", "S", ...), except capital I, N, U,  *)
(*   written "I_", "N_", "U_" (the bare names are katakana).                *)
(*   "cDAKU", "cHANDAKU" are the combining (semi-)voiced sound marks, and   *)
(*   "FU" フ; "x" is a character no pattern mentions.                        *)
(***************************************************************************)
EXTENDS Integers, Sequences, FiniteSets, TLC

VARIABLES
    product_name,       \* classifier: the argument of classify_product_comprehensive
    classification,     \* classifier: its returned dict
    raw_rows,           \* ingestion: the rows of the uploaded table (four source columns)
    df,                 \* ingestion: the DataFrame load_and_process_data returns
    school_data,        \* report: the classified records of the selected school
    tab_name,           \* report: the tab being rendered
    revenue_potential,  \* report: the value of calculate_revenue_potential
    total_potential,    \* report: calculate_revenue_potential's total_potential after each
                        \*         pass of its loop over the grades (<<>> on an early return)
    subject_data,       \* report: the records handed to display_subject_materials
    bulk_threshold,     \* report: st.session_state.bulk_threshold
    written,            \* report: the lines written, in order; for the loop over the
                        \*         tabs, one sequence of lines for each tab
    pc                  \* "input" before the operation under study has run, "done" after

vars == <<product_name, classification, raw_rows, df, school_data, tab_name,
          revenue_potential, total_potential, subject_data, bulk_threshold, written, pc>>

\* Python's None and pandas' missing value, as a field value and as a text.
None == "None"
NaN == <<"NaN">>

-----------------------------------------------------------------------------
(* Bounds of the model *)

MaxWords == 3
MaxRows == 2
MaxQty == 1
MaxEngMath == 10
MaxKrs == 4
MaxRika == 1
MaxRecords == 2
MaxBulkQty == 3
MaxThreshold == 6

-----------------------------------------------------------------------------
(* src/classifier.py: keyword dictionaries *)

UNIT_PRICE == 1500

\* src/app.py:24-35, the bulk threshold of the session and of the sidebar
BULK_THRESHOLD_MIN == 1
BULK_THRESHOLD_MAX == 50
BULK_THRESHOLD_DEFAULT == 5

SEASON_ORDER == <<"shunki", "kaki", "touki">>   \* 春期, 夏期, 冬期 in dict order

SEASON_KEYWORDS(season) ==
    CASE season = "shunki" ->
           << <<"s","p","r","i","n","g">>, <<"S","p","r","i","n","g">>,
              <<"S","P","R","I_","N_","G">>,
              <<"SU","PU","RI","N","GU">>, <<"hSU","hFU","hHANDAKU","hRI","hN","hKU","hDAKU">>,
              <<"SU","PU","RI","N","KU">>, <<"hSU","hFU","hHANDAKU","hRI","hN","hKU">>,
              <<"haru","ki">>, <<"haru","kisetsu">>, <<"haru","kougi">>,
              <<"shin","gaku","ki">> >>
      [] season = "kaki" ->
           << <<"s","u","m","m","e","r">>, <<"S","u","m","m","e","r">>,
              <<"S","U_","M","M","E","R">>,
              <<"SA","MA","DASH">>, <<"hSA","hMA","hDASH">>, <<"SA","MA">>, <<"hSA","hMA">>,
              <<"natsu","ki">>, <<"natsu","kisetsu">>, <<"natsu","kougi">>,
              <<"natsu","yasu","mi">> >>
      [] OTHER ->
           << <<"w","i","n","t","e","r">>, <<"W","i","n","t","e","r">>,
              <<"W","I_","N_","T","E","R">>,
              <<"U","smallI","N","TA","DASH">>, <<"U","I","N","TA","DASH">>,
              <<"hU","hsmallI","hN","hTA","hDASH">>, <<"hU","hI","hN","hTA","hDASH">>,
              <<"U","smallI","N","TA">>, <<"U","I","N","TA">>,
              <<"hU","hsmallI","hN","hTA">>, <<"hU","hI","hN","hTA">>,
              <<"U","smallI","N","TA","hDASH">>, <<"U","I","N","TA","hDASH">>,
              <<"hU","hsmallI","hN","hTA","hDASH">>, <<"hU","hI","hN","hTA","hDASH">>,
              <<"fuyu","ki">>, <<"fuyu","kisetsu">>, <<"fuyu","kougi">>,
              <<"fuyu","yasu","mi">> >>

EXAM_KEYWORDS ==
    << <<"nyu","shi">>, <<"ju","ken">>, <<"taka","kou","nyu","shi">>,
       <<"nyu","shi","tai","saku">>, <<"ju","ken","tai","saku">>,
       <<"ka","kyo","mon">>, <<"choku","zen","tai","saku">>, <<"gou","kaku">>,
       <<"si","bou","kou">> >>

COMPOSITE_KEYWORDS ==
    << <<"gou","hon">>, <<"sou","gou">>, <<"SE","smallTSU","TO">>,
       <<"PA","smallTSU","KU">>, <<"matome_ma","matome_to","matome_me">>,
       <<"zenbu","kamoku","moku">>, <<"5","kamoku","moku">>, <<"3","kamoku","moku">>,
       <<"O","DASH","RU","I","N">>, <<"fuku","gou">>, <<"sou","fukushuu","narau">>,
       <<"sou","matome_ma","matome_to","matome_me">>, <<"suberu","gou">> >>

SUBJECT_ORDER == <<"kokugo", "sansu", "sugaku", "eigo", "rika", "shakai">>

subject_patterns(subject) ==
    CASE subject = "kokugo" -> << <<"koku","go">>, <<"gen","dai","bun">>, <<"ko","bun">>,
                                  <<"kan","bun">>, <<"koku">> >>
      [] subject = "sansu"  -> << <<"san","suu">>, <<"san">> >>
      [] subject = "sugaku" -> << <<"suu","gaku">>, <<"suu">> >>
      [] subject = "eigo"   -> << <<"ei","go">>, <<"ei">> >>
      [] subject = "rika"   -> << <<"ri","kamoku">>, <<"ri">>, <<"butsu","ri">>,
                                  <<"bake","gaku">>, <<"sei","butsu">>, <<"chi","gaku">> >>
      [] OTHER              -> << <<"sha","kai">>, <<"sha">>, <<"reki","fumi">>,
                                  <<"chi","ri">>, <<"ooyake","tami">>, <<"sei2","ji">>,
                                  <<"kei","zai">> >>

-----------------------------------------------------------------------------
(* Text helpers: what str.strip, unicodedata.normalize, re.sub, `in` and   *)
(* re.search do on a sequence of characters.                               *)

\* F applied to the value of v (the value is computed once)
With(v, F(_)) == CHOOSE r \in {F(x) : x \in {v}} : TRUE

\* str.isspace for the characters of the model
IsSpace(c) == c \in {"sp", "wsp"}

\* keyword in text
Contains(text, kw) ==
    \E i \in 1..(Len(text) - Len(kw) + 1) : SubSeq(text, i, i + Len(kw) - 1) = kw

\* any keyword of the list in text
ContainsAny(text, kws) == \E k \in 1..Len(kws) : Contains(text, kws[k])

\* the index of the first non-space character at or after i (Len+1 if none): \s*
SkipSpaces(text, i) ==
    IF \E j \in i..Len(text) : ~IsSpace(text[j])
    THEN CHOOSE j \in i..Len(text) :
            /\ ~IsSpace(text[j])
            /\ \A k \in i..(j-1) : IsSpace(text[k])
    ELSE Len(text) + 1

CharAt(text, i) == IF i \in 1..Len(text) THEN text[i] ELSE "eot"

Min(S) == CHOOSE x \in S : \A y \in S : x <= y
Max(S) == CHOOSE x \in S : \A y \in S : y <= x

-----------------------------------------------------------------------------
(* src/classifier.py: normalize_text *)

\* str.strip()
strip(text) ==
    With({i \in 1..Len(text) : ~IsSpace(text[i])}, LAMBDA solid :
         IF solid = {} THEN <<>> ELSE SubSeq(text, Min(solid), Max(solid)))

\* The compatibility decomposition of one character (NFKC, first half)
NFKCChar(c) ==
    CASE c = "fw1" -> "1" [] c = "fw2" -> "2" [] c = "fw3" -> "3"
      [] c = "fw4" -> "4" [] c = "fw5" -> "5" [] c = "fw6" -> "6"
      [] c = "wsp" -> "sp"
      [] c = "hSA" -> "SA" [] c = "hMA" -> "MA" [] c = "hDASH" -> "DASH"
      [] c = "hSU" -> "SU" [] c = "hFU" -> "FU" [] c = "hRI" -> "RI"
      [] c = "hN" -> "N"   [] c = "hKU" -> "KU" [] c = "hU" -> "U"
      [] c = "hsmallI" -> "smallI" [] c = "hI" -> "I" [] c = "hTA" -> "TA"
      [] c = "hDAKU" -> "cDAKU" [] c = "hHANDAKU" -> "cHANDAKU"
      [] OTHER -> c

\* The canonical composition of a base character and the mark after it
\* (NFKC, second half): フ+゜ = プ, ク+゛ = グ
Composed(base, mark) ==
    CASE base = "FU" /\ mark = "cHANDAKU" -> "PU"
      [] base = "KU" /\ mark = "cDAKU" -> "GU"
      [] OTHER -> base

RECURSIVE ComposeFrom(_, _)
\* the characters from position i on, each base character composed with its mark
ComposeFrom(d, i) ==
    IF i > Len(d) THEN <<>>
    ELSE IF i < Len(d) /\ Composed(d[i], d[i+1]) # d[i]
         THEN <<Composed(d[i], d[i+1])>> \o ComposeFrom(d, i + 2)
         ELSE <<d[i]>> \o ComposeFrom(d, i + 1)

\* unicodedata.normalize('NFKC', text)
NFKC(text) == With([i \in 1..Len(text) |-> NFKCChar(text[i])], LAMBDA d : ComposeFrom(d, 1))

\* re.sub(r'[ーｰ−―‐]', 'ー', text)
UnifyDashes(text) ==
    [i \in 1..Len(text) |->
        IF text[i] \in {"DASH", "hDASH", "minus", "hbar", "hyphen"} THEN "DASH" ELSE text[i]]

RECURSIVE CollapseFrom(_, _)
\* the characters from position i on, each run of spaces replaced by one space
CollapseFrom(text, i) ==
    IF i > Len(text) THEN <<>>
    ELSE IF ~IsSpace(text[i]) THEN <<text[i]>> \o CollapseFrom(text, i + 1)
    ELSE IF i > 1 /\ IsSpace(text[i-1]) THEN CollapseFrom(text, i + 1)
    ELSE <<"sp">> \o CollapseFrom(text, i + 1)

\* re.sub(r'\s+', ' ', text)
CollapseSpaces(text) == CollapseFrom(text, 1)

normalize_text(text) ==
    IF text = NaN THEN <<>>
    ELSE With(strip(text), LAMBDA a :
         With(NFKC(a), LAMBDA b :
         With(UnifyDashes(b), LAMBDA c : CollapseSpaces(c))))

-----------------------------------------------------------------------------
(* src/classifier.py: extract_grade *)

ElementaryDigits == {"1", "2", "3", "4", "5", "6", "fw1", "fw2", "fw3", "fw4", "fw5", "fw6"}
MiddleDigits == {"1", "2", "3", "fw1", "fw2", "fw3"}

\* num.translate(str.maketrans(full-width digits, ASCII digits))
translate(num) ==
    CASE num = "fw1" -> "1" [] num = "fw2" -> "2" [] num = "fw3" -> "3"
      [] num = "fw4" -> "4" [] num = "fw5" -> "5" [] num = "fw6" -> "6"
      [] OTHER -> num

\* re.search(prefix \s* ([digits]), text): the positions where a match starts
PrefixDigitStarts(text, prefix, digits) ==
    {i \in 1..Len(text) :
        /\ i + Len(prefix) - 1 <= Len(text)
        /\ SubSeq(text, i, i + Len(prefix) - 1) = prefix
        /\ CharAt(text, SkipSpaces(text, i + Len(prefix))) \in digits}

\* re.search(prefix \s* ([digits]) \s* 年, text): the positions where a match starts
PrefixDigitYearStarts(text, prefix, digits) ==
    {i \in PrefixDigitStarts(text, prefix, digits) :
        CharAt(text, SkipSpaces(text, SkipSpaces(text, i + Len(prefix)) + 1)) = "nen"}

\* re.search(([digits]) \s* 年生, text): the positions where a match starts
DigitYearStudentStarts(text, digits) ==
    {i \in 1..Len(text) :
        /\ text[i] \in digits
        /\ LET j == SkipSpaces(text, i + 1)
           IN  CharAt(text, j) = "nen" /\ CharAt(text, j + 1) = "sei"}

\* match.group(1) of the leftmost match of a prefix pattern
PrefixGroup1(text, prefix, starts) == text[SkipSpaces(text, Min(starts) + Len(prefix))]


\* HighSchoolMatch without the literal 高校 alternative
HighSchoolMatch_NoLiteral(text) ==
    \/ PrefixDigitStarts(text, <<"taka">>, MiddleDigits) # {}
    \/ Contains(text, <<"taka", "tou", "gaku", "kou">>)

\* re.search(r'(高校|高\s*[1-3１-３]|高等学校)', text)
HighSchoolMatch(text) ==
    \/ Contains(text, <<"taka", "kou">>)
    \/ PrefixDigitStarts(text, <<"taka">>, MiddleDigits) # {}
    \/ Contains(text, <<"taka", "tou", "gaku", "kou">>)

\* the grade found in a normalized name
GradeIn(normalized) ==
    With(PrefixDigitStarts(normalized, <<"sho">>, ElementaryDigits), LAMBDA e1 :
    IF e1 # {} THEN "sho" \o translate(PrefixGroup1(normalized, <<"sho">>, e1)) ELSE
    With(PrefixDigitYearStarts(normalized, <<"sho", "gaku">>, ElementaryDigits), LAMBDA e2 :
    IF e2 # {} THEN "sho" \o translate(PrefixGroup1(normalized, <<"sho", "gaku">>, e2)) ELSE
    With(DigitYearStudentStarts(normalized, ElementaryDigits), LAMBDA e3 :
    IF e3 # {} THEN "sho" \o translate(normalized[Min(e3)]) ELSE
    With(PrefixDigitStarts(normalized, <<"chu">>, MiddleDigits), LAMBDA m1 :
    IF m1 # {} THEN "chu" \o translate(PrefixGroup1(normalized, <<"chu">>, m1)) ELSE
    With(PrefixDigitYearStarts(normalized, <<"chu", "gaku">>, MiddleDigits), LAMBDA m2 :
    IF m2 # {} THEN "chu" \o translate(PrefixGroup1(normalized, <<"chu", "gaku">>, m2)) ELSE
    IF HighSchoolMatch(normalized) THEN "koukou" ELSE None)))))

extract_grade(name) == With(normalize_text(name), LAMBDA normalized : GradeIn(normalized))

IsElementary(grade) == grade \in {"sho1", "sho2", "sho3", "sho4", "sho5", "sho6"}
IsMiddle(grade) == grade \in {"chu1", "chu2", "chu3"}

-----------------------------------------------------------------------------
(* src/classifier.py: extract_subject *)

\* found_subjects, in the order of the dictionary
found_subjects(normalized) ==
    SelectSeq(SUBJECT_ORDER, LAMBDA s : ContainsAny(normalized, subject_patterns(s)))

InSeq(x, seq) == \E i \in 1..Len(seq) : seq[i] = x

\* SubjectOf without the grade-sensitive adjustment
SubjectOf_NoGrade(found, grade) == IF found = <<>> THEN "sonota" ELSE found[1]

\* the subject chosen from found_subjects, given the grade
SubjectOf(found, grade) ==
    IF found = <<>> THEN "sonota"
    ELSE IF IsMiddle(grade) /\ (InSeq("sugaku", found) \/ InSeq("sansu", found))
         THEN "sugaku"
    ELSE IF IsElementary(grade) /\ (InSeq("sansu", found) \/ InSeq("sugaku", found))
         THEN "sansu"
    ELSE found[1]

extract_subject(name, grade) ==
    With(normalize_text(name), LAMBDA normalized :
    With(found_subjects(normalized), LAMBDA found : SubjectOf(found, grade)))

-----------------------------------------------------------------------------
(* src/classifier.py: extract_season_and_exam, is_composite_material *)

\* the (season, is_exam) pair
\* extract_season_and_exam with the season looked up before the exam keywords
extract_season_and_exam_SeasonFirst(name) ==
    With(normalize_text(name), LAMBDA normalized :
    With(SelectSeq(SEASON_ORDER, LAMBDA s : ContainsAny(normalized, SEASON_KEYWORDS(s))),
         LAMBDA hits :
            IF hits # <<>> THEN <<hits[1], FALSE>>
            ELSE IF ContainsAny(normalized, EXAM_KEYWORDS) THEN <<None, TRUE>>
            ELSE <<None, FALSE>>))

extract_season_and_exam(name) ==
    With(normalize_text(name), LAMBDA normalized :
    IF ContainsAny(normalized, EXAM_KEYWORDS) THEN <<None, TRUE>>
    ELSE With(SelectSeq(SEASON_ORDER,
                        LAMBDA s : ContainsAny(normalized, SEASON_KEYWORDS(s))),
              LAMBDA hits : IF hits # <<>> THEN <<hits[1], FALSE>> ELSE <<None, FALSE>>))

is_composite_material(name) ==
    With(normalize_text(name), LAMBDA normalized :
         ContainsAny(normalized, COMPOSITE_KEYWORDS))

-----------------------------------------------------------------------------
(* src/classifier.py: classify_product_comprehensive *)
(* Fields: gakunen 学年, kamoku 科目, kisetsu 季節, nyushi 入試フラグ,            *)
(* gappon 合本フラグ, category カテゴリ.  Categories: "nyushi" 入試, "tsunen" 通年 *)
(* and the three seasons.                                                  *)

classify_product_comprehensive(name) ==
    IF name = NaN
    THEN [gakunen |-> None, kamoku |-> "sonota", kisetsu |-> None,
          nyushi |-> FALSE, gappon |-> FALSE, category |-> "tsunen"]
    ELSE With(extract_grade(name), LAMBDA grade :
         With(extract_season_and_exam(name), LAMBDA se :
              [gakunen |-> grade,
               kamoku |-> extract_subject(name, grade),
               kisetsu |-> se[1],
               nyushi |-> se[2],
               gappon |-> is_composite_material(name),
               category |-> IF se[2] THEN "nyushi"
                            ELSE IF se[1] # None THEN se[1] ELSE "tsunen"]))

-----------------------------------------------------------------------------
(* Specification SpecClassify: classify_product_comprehensive applied to a *)
(* product name.  Names are built from up to MaxWords words of Vocabulary; *)
(* the examples of the specification's section 8 and a missing name are    *)
(* inputs too.                                                             *)

Vocabulary ==
    { <<"sho">>, <<"chu">>, <<"gaku">>, <<"2">>, <<"fw3">>, <<"nen">>, <<"nen", "sei">>,
      <<"sho", "gaku">>, <<"chu", "gaku">>, <<"chu", "2">>, <<"sho", "fw3">>,
      <<"taka", "kou">>, <<"nyu", "shi">>, <<"san", "suu">>, <<"suu", "gaku">>,
      <<"koku", "go">>, <<"natsu", "ki">>, <<"hSA", "hMA", "hDASH">>,
      <<"SE", "smallTSU", "TO">>, <<"wsp">> }

RECURSIVE Flatten(_)
Flatten(words) == IF words = <<>> THEN <<>> ELSE Head(words) \o Flatten(Tail(words))

\* "中2 数学 夏期講習テキスト"
Example1 == <<"chu", "2", "sp", "suu", "gaku", "sp", "natsu", "ki", "kougi", "narau",
              "TE", "KI", "SU", "TO">>
\* "高校入試対策 過去問集"
Example2 == <<"taka", "kou", "nyu", "shi", "tai", "saku", "sp", "ka", "kyo", "mon", "shuu">>
\* "小3算数・国語セット"
Example3 == <<"sho", "3", "san", "suu", "nakaguro", "koku", "go", "SE", "smallTSU", "TO">>

ProductNames ==
    {Flatten(ws) : ws \in UNION {[1..n -> Vocabulary] : n \in 0..MaxWords}}
        \cup {NaN, Example1, Example2, Example3}

EmptyClassification ==
    [gakunen |-> None, kamoku |-> "sonota", kisetsu |-> None,
     nyushi |-> FALSE, gappon |-> FALSE, category |-> "tsunen"]

\* The variables an operation of another specification uses stay as they are.
IdleIngestion == raw_rows = <<>> /\ df = <<>>
IdleReport ==
    /\ school_data = <<>> /\ tab_name = "tsunen" /\ revenue_potential = 0
    /\ total_potential = <<>>
    /\ subject_data = <<>> /\ bulk_threshold = BULK_THRESHOLD_DEFAULT /\ written = <<>>
IdleClassifier == product_name = NaN /\ classification = EmptyClassification

InitClassify ==
    /\ product_name \in ProductNames
    /\ classification = EmptyClassification
    /\ pc = "input"
    /\ IdleIngestion /\ IdleReport

Classify ==
    /\ pc = "input"
    /\ classification' = classify_product_comprehensive(product_name)
    /\ pc' = "done"
    /\ UNCHANGED <<product_name, raw_rows, df, school_data, tab_name, revenue_potential,
                   total_potential, subject_data, bulk_threshold, written>>

NextClassify == Classify

SpecClassify == InitClassify /\ [][NextClassify]_vars

-----------------------------------------------------------------------------
(* Claims about the classifier, checked under SpecClassify *)

CATEGORIES == {"nyushi", "shunki", "kaki", "touki", "tsunen"}

Classified == pc = "done" /\ product_name \in ProductNames

\* C1: every product name (a missing one too) gets exactly one category of
\* {入試, 春期, 夏期, 冬期, 通年}: 入試 iff the exam flag is set, else the season when
\* one is set, else 通年; a name holding an exam keyword has the exam flag set and
\* no season, whatever seasonal keyword it also holds.
C1_CategoryPriority ==
    Classified =>
        /\ classification.category \in CATEGORIES
        /\ (classification.category = "nyushi") <=> classification.nyushi
        /\ ~classification.nyushi =>
              classification.category =
                 (IF classification.kisetsu # None THEN classification.kisetsu ELSE "tsunen")
        /\ (product_name # NaN /\ ContainsAny(product_name, EXAM_KEYWORDS)) =>
              (classification.nyushi /\ classification.kisetsu = None)

\* C1 witness: a classified name that holds both 入試 and 夏期
C1_Witness ==
    /\ Classified /\ product_name # NaN
    /\ Contains(product_name, <<"nyu", "shi">>)
    /\ Contains(product_name, <<"natsu", "ki">>)
    /\ classification.category = "nyushi"

\* C4: when a 算数 or a 数学 keyword is found in the name, a resolved grade of
\* 中1-中3 gives the subject 数学 and a resolved grade of 小1-小6 gives 算数,
\* whatever other subject keywords are found.
C4_GradeCollapse ==
    (/\ Classified /\ product_name # NaN
     /\ (Contains(product_name, <<"san">>) \/ Contains(product_name, <<"suu">>))) =>
        /\ IsMiddle(classification.gakunen) => classification.kamoku = "sugaku"
        /\ IsElementary(classification.gakunen) => classification.kamoku = "sansu"

\* C4 witness: a middle-school name holding 国語 and 算数, classified 数学
C4_Witness ==
    /\ Classified /\ product_name # NaN
    /\ Contains(product_name, <<"koku", "go">>)
    /\ Contains(product_name, <<"san", "suu">>)
    /\ IsMiddle(classification.gakunen)
    /\ classification.kamoku = "sugaku"

GradeLikeChars ==
    {"sho", "chu", "taka", "1", "2", "3", "4", "5", "6",
     "fw1", "fw2", "fw3", "fw4", "fw5", "fw6"}

\* The only grade-like characters of the name are the 高 of 高校入試
OnlyGradeTokenIsExamKoukou(name) ==
    /\ name # NaN
    /\ Contains(name, <<"taka", "kou", "nyu", "shi">>)
    /\ \A i \in 1..Len(name) :
          name[i] \in GradeLikeChars =>
             /\ i + 3 <= Len(name)
             /\ SubSeq(name, i, i + 3) = <<"taka", "kou", "nyu", "shi">>

\* C6 as claimed: a name whose only grade-like token is the 高校 of 高校入試 is
\* classified with the grade unset, the exam flag set, no season, category 入試.
C6_AsClaimed ==
    (Classified /\ OnlyGradeTokenIsExamKoukou(product_name)) =>
        /\ classification.gakunen = None
        /\ classification.nyushi /\ classification.kisetsu = None
        /\ classification.category = "nyushi"

\* C6 amended: such a name is classified with the grade 高校, the exam flag set,
\* no season, category 入試.
C6_Amended ==
    (Classified /\ OnlyGradeTokenIsExamKoukou(product_name)) =>
        /\ classification.gakunen = "koukou"
        /\ classification.nyushi /\ classification.kisetsu = None
        /\ classification.category = "nyushi"

\* C6 witness: the specification's example, classified
C6_Witness ==
    /\ Classified /\ product_name = Example2
    /\ classification.gakunen = "koukou" /\ classification.category = "nyushi"

\* The grades 中{n} of the middle-school tokens of a text: 中 + digit 1-3, and
\* 中学 + digit 1-3 + 年
MiddleTokenGrades(text) ==
    {"chu" \o translate(text[i + 1]) :
        i \in {j \in 1..(Len(text) - 1) : text[j] = "chu" /\ text[j + 1] \in MiddleDigits}}
    \cup
    {"chu" \o translate(text[i + 2]) :
        i \in {j \in 1..(Len(text) - 3) :
                 /\ text[j] = "chu" /\ text[j + 1] = "gaku"
                 /\ text[j + 2] \in MiddleDigits /\ text[j + 3] = "nen"}}

\* C10: a name that holds a middle-school grade token and no 小 gets the grade
\* 中{n} of that token, never an elementary grade.
C10_MiddleGrade ==
    (/\ Classified /\ product_name # NaN
     /\ MiddleTokenGrades(product_name) # {}
     /\ ~Contains(product_name, <<"sho">>)) =>
        /\ classification.gakunen \in MiddleTokenGrades(product_name)
        /\ ~IsElementary(classification.gakunen)

-----------------------------------------------------------------------------
(* src/app.py: load_and_process_data                                       *)
(* A raw row holds the four source cells: date 伝票日付, school 得意先名１,       *)
(* product 商品名, qty 数量.  A row of a DataFrame holds its index label,      *)
(* the order columns (chumonbi 注文日, jukumei 塾名, shohinmei 商品名,           *)
(* sassu 冊数) and the classification columns; either group is NaNColumns   *)
(* when pd.concat found no row with that label on that side.               *)

NaT == "NaT"
NaNColumns == [na |-> TRUE]

\* pd.to_datetime(cell, errors='coerce')
to_datetime(cell) == IF cell \in {"2024-04-01", "2024-04-02"} THEN cell ELSE NaT

\* pd.to_numeric(cell, errors='coerce').fillna(0).astype(int)
to_int(cell) == IF cell.numeric THEN cell.value ELSE 0

\* Series.astype(str) of one cell: a missing cell becomes the text "nan", or,
\* where astype(str) yields the string dtype, stays missing (str_keeps_na)
astype_str(cell, str_keeps_na) ==
    IF cell = NaN THEN (IF str_keeps_na THEN NaN ELSE <<"n", "a", "n">>) ELSE cell

\* Series.str.strip() of one cell
str_strip(cell) == IF cell = NaN THEN NaN ELSE strip(cell)

\* src/app.py:66-70, the order columns of the row with label i - 1
TypedRow(rows, i, str_keeps_na) ==
    [chumonbi |-> to_datetime(rows[i].date),
     sassu |-> to_int(rows[i].qty),
     jukumei |-> str_strip(astype_str(rows[i].school, str_keeps_na)),
     shohinmei |-> astype_str(rows[i].product, str_keeps_na)]

\* src/app.py:73-74, whether the row survives df[df['冊数'] > 0] and dropna
Retained(row) ==
    /\ row.sassu > 0
    /\ row.chumonbi # NaT /\ row.jukumei # NaN /\ row.shohinmei # NaN

\* The k-th element, in increasing order, of a set of integers
KthOf(S, k) == CHOOSE i \in S : Cardinality({j \in S : j <= i}) = k

\* pd.concat([df, df_classified], axis=1) with every label of `labels` in index order
ConcatColumns(labels, left, kept, right) ==
    [k \in 1..Cardinality(labels) |->
        With(KthOf(labels, k), LAMBDA label :
            [index |-> label,
             order |-> IF label + 1 \in kept THEN left[label + 1] ELSE NaNColumns,
             cls |-> IF label + 1 \in DOMAIN right THEN right[label + 1] ELSE NaNColumns])]

load_and_process_data(rows, str_keeps_na) ==
    With([i \in 1..Len(rows) |-> TypedRow(rows, i, str_keeps_na)], LAMBDA typed :
    With({i \in 1..Len(rows) : Retained(typed[i])}, LAMBDA kept :
    \* classification_results.tolist(), normalized into a frame with labels 0..n-1
    With([k \in 1..Cardinality(kept) |->
             classify_product_comprehensive(typed[KthOf(kept, k)].shohinmei)],
         LAMBDA df_classified :
    ConcatColumns({i - 1 : i \in kept} \cup {k - 1 : k \in DOMAIN df_classified},
                  typed, kept, df_classified))))

-----------------------------------------------------------------------------
(* Specification SpecLoad: load_and_process_data applied to a table of up  *)
(* to MaxRows raw rows.                                                    *)

RawDates == {"2024-04-01", "not a date"}
RawSchools == {<<"A">>, <<"sp">>, NaN}             \* "A", a blank cell, a missing cell
RawProducts == {<<"chu", "2", "suu", "gaku">>,     \* "中2数学"
                <<"sho", "fw3", "san", "suu">>,     \* "小３算数"
                NaN}
RawQuantities == {[numeric |-> TRUE, value |-> 2], [numeric |-> TRUE, value |-> 0],
                  [numeric |-> TRUE, value |-> -1], [numeric |-> FALSE, value |-> 0]}

RawRows == [date : RawDates, school : RawSchools, product : RawProducts, qty : RawQuantities]

InitLoad ==
    /\ raw_rows \in UNION {[1..n -> RawRows] : n \in 0..MaxRows}
    /\ df = <<>>
    /\ pc = "input"
    /\ IdleClassifier /\ IdleReport

Load ==
    /\ pc = "input"
    /\ \E str_keeps_na \in BOOLEAN :
          df' = load_and_process_data(raw_rows, str_keeps_na)
    /\ pc' = "done"
    /\ UNCHANGED <<product_name, classification, raw_rows, school_data, tab_name,
                   revenue_potential, total_potential, subject_data, bulk_threshold,
                   written>>

NextLoad == Load

SpecLoad == InitLoad /\ [][NextLoad]_vars

-----------------------------------------------------------------------------
(* Claims about ingestion, checked under SpecLoad *)

Loaded == pc = "done" /\ raw_rows # <<>>

\* C2: every record of the output of load_and_process_data has a non-null order
\* date, a non-empty school name, a non-empty product name and quantity > 0.
C2_RetainedRecordsValid ==
    Loaded =>
        \A k \in 1..Len(df) :
            /\ df[k].order # NaNColumns
            /\ df[k].order.chumonbi # NaT
            /\ df[k].order.jukumei \notin {NaN, <<>>}
            /\ df[k].order.shohinmei \notin {NaN, <<>>}
            /\ df[k].order.sassu > 0

\* the 商品名 of an output record
ProductOf(row) == IF row.order = NaNColumns THEN NaN ELSE row.order.shohinmei

\* C3: every record of the output carries the classification of its own product
\* name, so two records with the same product name have the same classification.
C3_OwnClassification ==
    Loaded =>
        /\ \A k \in 1..Len(df) : df[k].cls = classify_product_comprehensive(ProductOf(df[k]))
        /\ \A j, k \in 1..Len(df) : ProductOf(df[j]) = ProductOf(df[k]) => df[j].cls = df[k].cls

-----------------------------------------------------------------------------
(* src/app.py: calculate_revenue_potential                                 *)
(* A classified record of a school: gakunen 学年, kamoku 科目, category       *)
(* カテゴリ, gappon 合本フラグ, shohinmei 商品名, chumonbi 注文日, sassu 冊数.       *)

TAB_NAMES == <<"tsunen", "shunki", "kaki", "touki", "nyushi">>
MIDDLE_SUBJECTS == <<"kokugo", "sugaku", "eigo", "rika", "shakai">>
GRADES == <<"chu1", "chu2", "chu3">>

RECURSIVE SumSassu(_)
\* data['冊数'].sum()
SumSassu(data) == IF data = <<>> THEN 0 ELSE Head(data).sassu + SumSassu(Tail(data))

\* data[data['学年'] == grade]
OfGrade(data, grade) == SelectSeq(data, LAMBDA r : r.gakunen = grade)

\* data[data['科目'] == subject]
OfSubject(data, subject) == SelectSeq(data, LAMBDA r : r.kamoku = subject)

\* data.groupby('科目')['冊数'].sum()
SubjectTotals(data) ==
    [subject \in {data[i].kamoku : i \in 1..Len(data)} |-> SumSassu(OfSubject(data, subject))]

\* totals.reindex([...], fill_value=0)[subject], and totals.get(subject, 0)
TotalOf(totals, subject) == IF subject \in DOMAIN totals THEN totals[subject] ELSE 0

\* int(np.round(num / den)) for num >= 0, den > 0: ties go to the even neighbour
np_round(num, den) ==
    With(num \div den, LAMBDA q :
    With(num % den, LAMBDA r :
         IF 2 * r < den THEN q
         ELSE IF 2 * r > den THEN q + 1
         ELSE IF q % 2 = 0 THEN q ELSE q + 1))

\* the rounded mean of the nonzero 国語/理科/社会 totals, else half of the fallback
KrsMean(totals, fallback) ==
    With({subject \in {"kokugo", "rika", "shakai"} : TotalOf(totals, subject) > 0},
         LAMBDA krs_orders :
            IF krs_orders # {}
            THEN np_round(TotalOf(totals, "kokugo") + TotalOf(totals, "rika")
                              + TotalOf(totals, "shakai"),
                          Cardinality(krs_orders))
            ELSE np_round(fallback, 2))

\* src/app.py:104-116: <<c3_eng_math_max, c3_krs_avg>>
C3Baseline(target_data) ==
    With(OfGrade(target_data, "chu3"), LAMBDA c3_data :
         IF c3_data = <<>> THEN <<0, 0>>
         ELSE With(SubjectTotals(c3_data), LAMBDA totals :
              With(Max({TotalOf(totals, "eigo"), TotalOf(totals, "sugaku")}),
                   LAMBDA c3_eng_math_max :
                      <<c3_eng_math_max, KrsMean(totals, c3_eng_math_max)>>)))

\* ScaledBases with the factors of 中1 and 中2 exchanged
ScaledBases_Swapped(grade, c3) ==
    CASE grade = "chu1" -> <<np_round(c3[1] * 3, 4), np_round(c3[2] * 3, 4)>>
      [] grade = "chu2" -> <<np_round(c3[1] * 2, 4), np_round(c3[2] * 2, 4)>>
      [] OTHER -> c3

\* src/app.py:130-139: <<eng_math_base, krs_base>> of a grade without records
ScaledBases(grade, c3) ==
    CASE grade = "chu1" -> <<np_round(c3[1] * 2, 4), np_round(c3[2] * 2, 4)>>
      [] grade = "chu2" -> <<np_round(c3[1] * 3, 4), np_round(c3[2] * 3, 4)>>
      [] OTHER -> c3

\* src/app.py:123-139: <<eng_math_base, krs_base>> of a grade
Bases(target_data, grade) ==
    With(OfGrade(target_data, grade), LAMBDA grade_data :
         IF grade_data # <<>>
         THEN With(SubjectTotals(grade_data), LAMBDA totals :
              With(Max({totals[subject] : subject \in DOMAIN totals}), LAMBDA grade_max :
                   <<grade_max, KrsMean(totals, grade_max)>>))
         ELSE ScaledBases(grade, C3Baseline(target_data)))

RECURSIVE MissingPotential(_, _, _)
\* src/app.py:141-147: what the subjects from position i on add to total_potential
MissingPotential(totals, bases, i) ==
    IF i > Len(MIDDLE_SUBJECTS) THEN 0
    ELSE (IF TotalOf(totals, MIDDLE_SUBJECTS[i]) = 0
          THEN (IF MIDDLE_SUBJECTS[i] \in {"eigo", "sugaku"} THEN bases[1] ELSE bases[2])
                   * UNIT_PRICE
          ELSE 0)
         + MissingPotential(totals, bases, i + 1)

\* src/app.py:119-147: what one pass of the loop over the grades adds
GradePotential(target_data, grade) ==
    With(SubjectTotals(OfGrade(target_data, grade)), LAMBDA grade_subject_totals :
    With(Bases(target_data, grade), LAMBDA bases :
         MissingPotential(grade_subject_totals, bases, 1)))

\* src/app.py:92-95
TargetData(data) ==
    SelectSeq(data, LAMBDA r : r.category = "tsunen" /\ r.gakunen \in {"chu1", "chu2", "chu3"})

RECURSIVE TotalPotentialAfter(_, _)
\* total_potential after n passes of the loop over the grades
TotalPotentialAfter(target_data, n) ==
    IF n = 0 THEN 0
    ELSE TotalPotentialAfter(target_data, n - 1) + GradePotential(target_data, GRADES[n])

\* whether calculate_revenue_potential returns 0 before its loop
ReturnsEarly_NoTabTest(data, tab) == TargetData(data) = <<>>

ReturnsEarly(data, tab) == tab # "tsunen" \/ TargetData(data) = <<>>

\* the trace of total_potential: its value after each pass of the loop
TotalPotentialTrace(data, tab) ==
    IF ReturnsEarly(data, tab) THEN <<>>
    ELSE With(TargetData(data), LAMBDA target_data :
              [n \in 1..Len(GRADES) |-> TotalPotentialAfter(target_data, n)])

calculate_revenue_potential(data, tab) ==
    With(TotalPotentialTrace(data, tab), LAMBDA trace :
         IF trace = <<>> THEN 0 ELSE trace[Len(GRADES)])

-----------------------------------------------------------------------------
(* Specification SpecRevenue: calculate_revenue_potential applied to the   *)
(* records of one school.  The tables are of three shapes: at most one     *)
(* record of the same quantity for each (grade, core subject) pair of the  *)
(* 通年 tab; 中3 records of up to MaxEngMath (英語, 数学) and MaxKrs (国語, 理科,   *)
(* 社会) books with 中1 and 中2 empty or not; up to MaxRecords records of      *)
(* any grade, subject and category.                                        *)

Record(grade, subject, category, qty) ==
    [gakunen |-> grade, kamoku |-> subject, category |-> category, gappon |-> FALSE,
     shohinmei |-> <<"x">>, chumonbi |-> "2024-04-01", sassu |-> qty]

CompositeRecord(grade, subject, category, qty) ==
    [Record(grade, subject, category, qty) EXCEPT !.gappon = TRUE]

MiddleCells ==
    << <<"chu1", "kokugo">>, <<"chu1", "sugaku">>, <<"chu1", "eigo">>, <<"chu1", "rika">>,
       <<"chu1", "shakai">>,
       <<"chu2", "kokugo">>, <<"chu2", "sugaku">>, <<"chu2", "eigo">>, <<"chu2", "rika">>,
       <<"chu2", "shakai">>,
       <<"chu3", "kokugo">>, <<"chu3", "sugaku">>, <<"chu3", "eigo">>, <<"chu3", "rika">>,
       <<"chu3", "shakai">> >>

\* one 通年 record of qty books for each cell of the mask
DenseTable(mask, qty) ==
    With(SelectSeq(MiddleCells, LAMBDA c : c \in mask), LAMBDA cells :
         [i \in 1..Len(cells) |-> Record(cells[i][1], cells[i][2], "tsunen", qty)])

\* one 通年 record for each nonzero quantity of the function (grade, subject) -> books
TableOf(qtys) ==
    With(SelectSeq(MiddleCells, LAMBDA c : c \in DOMAIN qtys /\ qtys[c] > 0), LAMBDA cells :
         [i \in 1..Len(cells) |-> Record(cells[i][1], cells[i][2], "tsunen", qtys[cells[i]])])

\* the 中3 table of the given subject totals, with one 中1 and one 中2 record or none
BaselineTable(e, m, k, r, s, c1, c2) ==
    TableOf([c \in {<<"chu3", "eigo">>, <<"chu3", "sugaku">>, <<"chu3", "kokugo">>,
                    <<"chu3", "rika">>, <<"chu3", "shakai">>,
                    <<"chu1", "sugaku">>, <<"chu2", "kokugo">>} |->
                CASE c = <<"chu3", "eigo">> -> e
                  [] c = <<"chu3", "sugaku">> -> m
                  [] c = <<"chu3", "kokugo">> -> k
                  [] c = <<"chu3", "rika">> -> r
                  [] c = <<"chu3", "shakai">> -> s
                  [] c = <<"chu1", "sugaku">> -> c1
                  [] OTHER -> c2])

SparseRecords ==
    {Record(g, sb, c, q) : g \in {"chu1", "chu3", "sho6"}, sb \in {"sugaku", "sonota"},
                           c \in {"tsunen", "kaki"}, q \in 1..MaxQty}

InitRevenue ==
    /\ \/ \E mask \in SUBSET {MiddleCells[i] : i \in 1..Len(MiddleCells)}, q \in 1..MaxQty :
             school_data = DenseTable(mask, q)
       \/ \E e \in 0..MaxEngMath, m \in 0..MaxEngMath, k \in 0..MaxKrs, r \in 0..MaxRika,
             s \in 0..MaxKrs, c1 \in 0..1, c2 \in 0..1 :
             school_data = BaselineTable(e, m, k, r, s, c1, c2)
       \/ \E n \in 0..MaxRecords : school_data \in [1..n -> SparseRecords]
    /\ tab_name = "tsunen" /\ revenue_potential = 0 /\ total_potential = <<>>
    /\ subject_data = <<>> /\ bulk_threshold = BULK_THRESHOLD_DEFAULT /\ written = <<>>
    /\ pc = "input"
    /\ IdleClassifier /\ IdleIngestion

CalculateRevenue ==
    /\ pc = "input"
    /\ \E tab \in {TAB_NAMES[i] : i \in 1..Len(TAB_NAMES)} :
          /\ tab_name' = tab
          /\ revenue_potential' = calculate_revenue_potential(school_data, tab)
          /\ total_potential' = TotalPotentialTrace(school_data, tab)
    /\ pc' = "done"
    /\ UNCHANGED <<product_name, classification, raw_rows, df, school_data,
                   subject_data, bulk_threshold, written>>

NextRevenue == CalculateRevenue

SpecRevenue == InitRevenue /\ [][NextRevenue]_vars

-----------------------------------------------------------------------------
(* Claims about the revenue potential, checked under SpecRevenue *)

RevenueDone == pc = "done"

\* the books of (grade, subject) among the 通年 records of the school
AnnualTotal(grade, subject) ==
    SumSassu(SelectSeq(school_data,
                       LAMBDA r : r.category = "tsunen" /\ r.gakunen = grade
                                  /\ r.kamoku = subject))

\* whether the school has a 通年 record of the grade
AnnualHas(grade) ==
    \E i \in 1..Len(school_data) :
        school_data[i].category = "tsunen" /\ school_data[i].gakunen = grade

CORE_SUBJECTS == {"kokugo", "sugaku", "eigo", "rika", "shakai"}

AllCoreSubjectsOrdered ==
    \A grade \in {"chu1", "chu2", "chu3"}, subject \in CORE_SUBJECTS :
        AnnualTotal(grade, subject) > 0

\* C5: calculate_revenue_potential returns a value >= 0, and exactly 0 when the
\* tab is not 通年, when the 通年 slice of 中1-中3 is empty, and when each of the
\* five core subjects has a nonzero total in each of 中1, 中2, 中3 of the 通年 tab.
C5_RevenueNonNegative ==
    RevenueDone =>
        /\ revenue_potential >= 0
        /\ tab_name # "tsunen" => revenue_potential = 0
        /\ (~AnnualHas("chu1") /\ ~AnnualHas("chu2") /\ ~AnnualHas("chu3")) =>
              revenue_potential = 0
        /\ AllCoreSubjectsOrdered => revenue_potential = 0

\* C5 witness: the 通年 tab of a school that ordered every core subject in every
\* middle-school grade
C5_Witness ==
    /\ RevenueDone /\ tab_name = "tsunen"
    /\ AllCoreSubjectsOrdered /\ revenue_potential = 0

\* the integer nearest to num / den, the even one of two equally near
RoundedQuotient(num, den) ==
    CHOOSE n \in 0..(num + 1) :
        /\ 2 * num - den <= 2 * n * den
        /\ 2 * n * den <= 2 * num + den
        /\ (2 * n * den = 2 * num - den \/ 2 * n * den = 2 * num + den) => n % 2 = 0

\* the larger of 中3's 英語 and 数学 totals
EngMathMax ==
    IF AnnualTotal("chu3", "eigo") >= AnnualTotal("chu3", "sugaku")
    THEN AnnualTotal("chu3", "eigo") ELSE AnnualTotal("chu3", "sugaku")

\* the rounded mean of 中3's nonzero 国語/理科/社会 totals, round(EngMathMax / 2)
\* when all three are zero
KrsAvg ==
    With(Cardinality({s \in {"kokugo", "rika", "shakai"} : AnnualTotal("chu3", s) > 0}),
         LAMBDA n :
            IF n = 0 THEN RoundedQuotient(EngMathMax, 2)
            ELSE RoundedQuotient(AnnualTotal("chu3", "kokugo") + AnnualTotal("chu3", "rika")
                                     + AnnualTotal("chu3", "shakai"), n))

\* what the n-th pass of the loop over the grades added to total_potential
Contribution(n) == total_potential[n] - (IF n = 1 THEN 0 ELSE total_potential[n - 1])

\* 中3 totals {英語:10, 数学:8, 国語:0, 理科:0, 社会:4} and no 中1 record
Example4 ==
    /\ AnnualTotal("chu3", "eigo") = 10 /\ AnnualTotal("chu3", "sugaku") = 8
    /\ AnnualTotal("chu3", "kokugo") = 0 /\ AnnualTotal("chu3", "rika") = 0
    /\ AnnualTotal("chu3", "shakai") = 4
    /\ ~AnnualHas("chu1")

\* C9: in the 通年 tab, when 中3 has records and a grade of 中1 (k = 2), 中2 (k = 3)
\* has none, the grade adds (2 * round(engMathMax * k / 4) + 3 * round(krsAvg * k / 4))
\* * 1500; 中3 totals {英語:10, 数学:8, 社会:4} without 中1 records add 24000 for 中1.
C9_ScaledBaseline ==
    (RevenueDone /\ tab_name = "tsunen" /\ AnnualHas("chu3")) =>
        /\ \A n \in {1, 2} :
              ~AnnualHas(GRADES[n]) =>
                 Contribution(n) =
                    (2 * RoundedQuotient(EngMathMax * (n + 1), 4)
                       + 3 * RoundedQuotient(KrsAvg * (n + 1), 4)) * 1500
        /\ Example4 => Contribution(1) = 24000

\* C9 witness: the example, computed
C9_Witness ==
    /\ RevenueDone /\ tab_name = "tsunen" /\ AnnualHas("chu3") /\ AnnualHas("chu2")
    /\ Example4 /\ Contribution(1) = 24000

-----------------------------------------------------------------------------
(* src/app.py: display_subject_materials, display_grade_section and the    *)
(* loop over the tabs.  A written line has a kind:                         *)
(*   "header"       ### {grade}                                            *)
(*   "tab_flag"     the needs-attention line of a tab without records      *)
(*   "grade_flag"   the needs-attention line of a grade without records    *)
(*                  (marked: "⚠️ **要確認**", unmarked: "{grade}：要確認")      *)
(*   "subject_flag" ⚠️ **{subject}：要確認**                                  *)
(*   "no_orders"    注文実績なし                                              *)
(*   "summary"      {product} {total}冊 of the 高校 section                  *)
(*   "material"     a line of display_subject_materials                    *)

Line(kind, grade, subject) ==
    [kind |-> kind, grade |-> grade, subject |-> subject, product |-> <<>>, total |-> 0,
     max_day_books |-> 0, max_day_date |-> None, bulk |-> FALSE, bold |-> FALSE,
     marked |-> FALSE]

\* the order in which groupby and sort put the product names and dates of the model
SortedProducts == << <<"x">>, <<"y">> >>
SortedDates == <<"2024-04-01", "2024-04-02">>

\* data[data['商品名'] == product]
OfProduct(data, product) == SelectSeq(data, LAMBDA r : r.shohinmei = product)

\* the days of a product in daily_summary, in index order
DaysOf(data, product) ==
    SelectSeq(SortedDates, LAMBDA d : \E i \in 1..Len(data) :
                               data[i].shohinmei = product /\ data[i].chumonbi = d)

\* daily_summary: the books of (product, date)
DailyTotal(data, product, date) ==
    SumSassu(SelectSeq(data, LAMBDA r : r.shohinmei = product /\ r.chumonbi = date))

\* max_day_books >= bulk_threshold, with the boundary excluded
IsBulk_Strict(max_day_books, threshold) == max_day_books > threshold

\* src/app.py:237
IsBulk(max_day_books, threshold) == max_day_books >= threshold

\* src/app.py:205-242, the line of one product
MaterialLine(data, product, subject, max_subject_total, threshold, is_composite) ==
    With(DaysOf(data, product), LAMBDA days :
    With(Max({DailyTotal(data, product, days[i]) : i \in 1..Len(days)}),
         LAMBDA max_day_books :
    \* idxmax: the first day that has the maximum
    With(days[Min({i \in 1..Len(days) : DailyTotal(data, product, days[i]) = max_day_books})],
         LAMBDA max_day_date :
       [kind |-> "material", grade |-> None,
        subject |-> IF is_composite THEN "gappon" ELSE subject,
        product |-> product,
        total |-> SumSassu(OfProduct(data, product)),
        max_day_books |-> max_day_books,
        max_day_date |-> max_day_date,
        bulk |-> IsBulk(max_day_books, threshold),
        \* subject_total is the sum of the products' totals, the books of data
        bold |-> max_subject_total > 0 /\ SumSassu(data) <= max_subject_total \div 2,
        marked |-> FALSE])))

display_subject_materials(data, subject, max_subject_total, threshold, is_composite) ==
    With(SelectSeq(SortedProducts, LAMBDA p : OfProduct(data, p) # <<>>), LAMBDA products :
         [i \in 1..Len(products) |->
             MaterialLine(data, products[i], subject, max_subject_total, threshold,
                          is_composite)])

\* src/app.py:181-183
SUBJECTS == <<"kokugo", "sansu", "sugaku", "eigo", "rika", "shakai", "sonota">>
SEASONAL_TABS == {"shunki", "kaki", "touki"}
SubjectsOfTab(tab) == IF tab \in SEASONAL_TABS THEN SUBJECTS \o <<"gappon">> ELSE SUBJECTS

\* src/app.py:188-198, what one pass of the loop over the subjects writes
SubjectSection(data, grade, tab, subject, max_subject_total, threshold) ==
    IF subject = "gappon" /\ tab \in SEASONAL_TABS
    THEN With(SelectSeq(data, LAMBDA r : r.gappon), LAMBDA composite_data :
              IF composite_data # <<>>
              THEN display_subject_materials(composite_data, subject, max_subject_total,
                                             threshold, TRUE)
              ELSE <<>>)
    ELSE With(OfSubject(data, subject), LAMBDA one_subject :
              IF one_subject = <<>> /\ IsMiddle(grade)
                    /\ subject \in {"kokugo", "sugaku", "eigo", "rika", "shakai"}
              THEN <<Line("subject_flag", grade, subject)>>
              ELSE IF one_subject # <<>>
              THEN display_subject_materials(one_subject, subject, max_subject_total,
                                             threshold, FALSE)
              ELSE <<>>)

\* src/app.py:167-169; products of equal total are written in product order
HighSchoolSummary(data) ==
    With(SelectSeq(SortedProducts, LAMBDA p : OfProduct(data, p) # <<>>), LAMBDA products :
    With([i \in 1..Len(products) |->
             [Line("summary", "koukou", None) EXCEPT
                 !.product = products[i], !.total = SumSassu(OfProduct(data, products[i]))]],
         LAMBDA lines :
            IF Len(lines) = 2 /\ lines[1].total < lines[2].total
            THEN <<lines[2], lines[1]>> ELSE lines))

\* a flag for each core subject of a middle-school grade without records
EmptyGradeSection_PerSubject(grade) ==
    IF IsMiddle(grade)
    THEN [i \in 1..Len(MIDDLE_SUBJECTS) |-> Line("subject_flag", grade, MIDDLE_SUBJECTS[i])]
    ELSE <<Line("grade_flag", grade, None)>>

\* src/app.py:174-179, what display_grade_section writes for a grade without records
EmptyGradeSection(grade) ==
    <<[Line("grade_flag", grade, None) EXCEPT !.marked = IsMiddle(grade)]>>

display_grade_section(data, grade, tab, threshold) ==
    IF grade = "koukou"
    THEN <<Line("header", grade, None)>>
            \o (IF data = <<>> THEN <<Line("no_orders", grade, None)>>
                ELSE HighSchoolSummary(data))
    ELSE IF data = <<>>
    THEN <<Line("header", grade, None)>> \o EmptyGradeSection(grade)
    ELSE With(SubjectTotals(data), LAMBDA subject_totals :
         With(Max({subject_totals[sb] : sb \in DOMAIN subject_totals}),
              LAMBDA max_subject_total :
         With(SubjectsOfTab(tab), LAMBDA subjects :
              <<Line("header", grade, None)>>
                 \o Flatten([i \in 1..Len(subjects) |->
                               SubjectSection(data, grade, tab, subjects[i],
                                              max_subject_total, threshold)]))))

\* src/app.py:151-158
filter_data_by_tab(data, tab) == SelectSeq(data, LAMBDA r : r.category = tab)

ELEMENTARY_GRADES == <<"sho1", "sho2", "sho3", "sho4", "sho5", "sho6">>

\* src/app.py:303-324
display_grades(tab_data, tab) ==
    IF tab = "tsunen"
    THEN With({i \in 1..Len(ELEMENTARY_GRADES) :
                  OfGrade(tab_data, ELEMENTARY_GRADES[i]) # <<>>}, LAMBDA with_records :
            (IF with_records # {}
             THEN SubSeq(ELEMENTARY_GRADES, Min(with_records), Len(ELEMENTARY_GRADES))
             ELSE <<>>)
            \o <<"chu1", "chu2", "chu3">>
            \o (IF OfGrade(tab_data, "koukou") # <<>> THEN <<"koukou">> ELSE <<>>))
    ELSE IF tab = "nyushi" THEN <<"chu3">>
    ELSE <<"chu1", "chu2", "chu3">>

\* src/app.py:291-336, what the report of one tab writes below its title
TabReport(data, tab, threshold) ==
    With(filter_data_by_tab(data, tab), LAMBDA tab_data :
         IF tab_data # <<>>
         THEN With(display_grades(tab_data, tab), LAMBDA grades :
                   Flatten([i \in 1..Len(grades) |->
                              display_grade_section(OfGrade(tab_data, grades[i]), grades[i],
                                                    tab, threshold)]))
         ELSE <<Line("tab_flag", None, None)>>)

-----------------------------------------------------------------------------
(* Specification SpecReport: the tabs of the report of a school of up to   *)
(* MaxRecords classified records.                                          *)

ReportRecords ==
    {Record(g, sb, c, 1) : g \in {"sho5", "sho6", "chu1", "chu3", "koukou"},
                           sb \in {"kokugo", "sugaku"},
                           c \in {"tsunen", "kaki", "nyushi"}}
        \cup {CompositeRecord("chu1", "kokugo", "kaki", 1)}

InitReport ==
    /\ \E n \in 1..MaxRecords : school_data \in [1..n -> ReportRecords]
    /\ tab_name = "tsunen" /\ revenue_potential = 0 /\ total_potential = <<>>
    /\ subject_data = <<>> /\ bulk_threshold = BULK_THRESHOLD_DEFAULT /\ written = <<>>
    /\ pc = "input"
    /\ IdleClassifier /\ IdleIngestion

\* the loop over the tabs (src/app.py:286-336): written'[i] is what the i-th tab shows
\* below its title, and tab_name is left at the last tab
RenderTabs ==
    /\ pc = "input"
    /\ revenue_potential' = calculate_revenue_potential(school_data, "tsunen")
    /\ total_potential' = TotalPotentialTrace(school_data, "tsunen")
    /\ written' = [i \in 1..Len(TAB_NAMES) |->
                      TabReport(school_data, TAB_NAMES[i], bulk_threshold)]
    /\ tab_name' = TAB_NAMES[Len(TAB_NAMES)]
    /\ pc' = "done"
    /\ UNCHANGED <<product_name, classification, raw_rows, df, school_data,
                   subject_data, bulk_threshold>>

NextReport == RenderTabs

SpecReport == InitReport /\ [][NextReport]_vars

-----------------------------------------------------------------------------
(* Specification SpecBulk: display_subject_materials applied to up to      *)
(* MaxRecords records of one subject, of up to MaxBulkQty books each, under *)
(* a bulk threshold of the sidebar, which a later run may change.          *)

BulkThresholds ==
    {t \in BULK_THRESHOLD_MIN..BULK_THRESHOLD_MAX : t <= MaxThreshold}

BulkRecords ==
    {[Record("chu1", "sugaku", "tsunen", q) EXCEPT !.shohinmei = p, !.chumonbi = d] :
        p \in {SortedProducts[i] : i \in 1..Len(SortedProducts)},
        d \in {SortedDates[i] : i \in 1..Len(SortedDates)},
        q \in 1..MaxBulkQty}

InitBulk ==
    /\ \E n \in 1..MaxRecords : subject_data \in [1..n -> BulkRecords]
    /\ bulk_threshold = BULK_THRESHOLD_DEFAULT
    /\ written = <<>>
    /\ pc = "input"
    /\ school_data = <<>> /\ tab_name = "tsunen" /\ revenue_potential = 0
    /\ total_potential = <<>>
    /\ IdleClassifier /\ IdleIngestion

\* the lines of the subject under the threshold of the session
DisplaySubjectMaterials ==
    /\ pc = "input"
    /\ written' = display_subject_materials(subject_data, "sugaku", SumSassu(subject_data),
                                            bulk_threshold, FALSE)
    /\ pc' = "done"
    /\ UNCHANGED <<product_name, classification, raw_rows, df, school_data, tab_name,
                   revenue_potential, total_potential, subject_data, bulk_threshold>>

\* the sidebar's number_input sets another threshold and the page is written again
\* (src/app.py:29-35)
SetBulkThreshold ==
    /\ pc = "done"
    /\ \E t \in BulkThresholds :
          /\ t # bulk_threshold
          /\ bulk_threshold' = t
          /\ written' = display_subject_materials(subject_data, "sugaku",
                                                  SumSassu(subject_data), t, FALSE)
    /\ UNCHANGED <<product_name, classification, raw_rows, df, school_data, tab_name,
                   revenue_potential, total_potential, subject_data, pc>>

NextBulk == DisplaySubjectMaterials \/ SetBulkThreshold

SpecBulk == InitBulk /\ [][NextBulk]_vars

-----------------------------------------------------------------------------
(* Claims about the needs-attention flags, checked under SpecReport *)

TabIndexes == 1..Len(TAB_NAMES)

\* the records of the school that have the category of the i-th tab and the grade
RecordsIn(i, grade) ==
    {k \in 1..Len(school_data) :
        school_data[k].category = TAB_NAMES[i] /\ school_data[k].gakunen = grade}

\* the core subject has no record in (tab, grade)
Unordered(i, grade, subject) ==
    \A k \in RecordsIn(i, grade) : school_data[k].kamoku # subject

\* the lines of the i-th tab of a kind, for a grade and a subject
LinesOf(i, kind, grade, subject) ==
    {k \in 1..Len(written[i]) :
        /\ written[i][k].kind = kind
        /\ written[i][k].grade = grade
        /\ written[i][k].subject = subject}

SubjectFlags(i, grade) ==
    UNION {LinesOf(i, "subject_flag", grade, subject) : subject \in CORE_SUBJECTS}

\* the i-th tab shows a section of the grade
Shown(i, grade) == LinesOf(i, "header", grade, None) # {}

\* C7 as stated: in every section that a tab shows for a middle-school grade, the
\* grade without any record in the tab included, each core subject without records in
\* (tab, grade) has its own subject-level needs-attention flag; a section shown for an
\* elementary grade without records has one generic grade-level needs-attention flag.
C7_AsClaimed ==
    pc = "done" =>
        \A i \in TabIndexes :
            /\ \A grade \in {"chu1", "chu2", "chu3"}, subject \in CORE_SUBJECTS :
                  Shown(i, grade) /\ Unordered(i, grade, subject) =>
                      LinesOf(i, "subject_flag", grade, subject) # {}
            /\ \A grade \in {"sho5", "sho6"} :
                  Shown(i, grade) /\ RecordsIn(i, grade) = {} =>
                      Cardinality(LinesOf(i, "grade_flag", grade, None)) = 1

\* C7, amended: in a section that a tab shows for a middle-school grade with at least
\* one record in the tab, exactly the core subjects without records in (tab, grade)
\* have a subject-level needs-attention flag, one each; a section shown for a grade
\* without records in the tab, middle-school or elementary, has one generic
\* grade-level needs-attention flag and no subject-level flag.
C7_Amended ==
    pc = "done" =>
        \A i \in TabIndexes :
            \A grade \in {"sho5", "sho6", "chu1", "chu2", "chu3"} :
                Shown(i, grade) =>
                    IF RecordsIn(i, grade) # {}
                    THEN /\ LinesOf(i, "grade_flag", grade, None) = {}
                         /\ \A subject \in CORE_SUBJECTS :
                               Cardinality(LinesOf(i, "subject_flag", grade, subject))
                                  = IF IsMiddle(grade) /\ Unordered(i, grade, subject)
                                    THEN 1 ELSE 0
                    ELSE /\ Cardinality(LinesOf(i, "grade_flag", grade, None)) = 1
                         /\ SubjectFlags(i, grade) = {}

\* a tab that shows a middle-school grade with records and a flagged core subject, a
\* middle-school grade without records and an elementary grade without records
C7_Witness ==
    /\ pc = "done"
    /\ \E i \in TabIndexes :
          /\ Shown(i, "chu1") /\ RecordsIn(i, "chu1") # {}
          /\ Unordered(i, "chu1", "sugaku")
          /\ LinesOf(i, "subject_flag", "chu1", "sugaku") # {}
          /\ Shown(i, "chu2") /\ RecordsIn(i, "chu2") = {}
          /\ LinesOf(i, "grade_flag", "chu2", None) # {}
          /\ Shown(i, "sho6") /\ RecordsIn(i, "sho6") = {}
          /\ LinesOf(i, "grade_flag", "sho6", None) # {}

-----------------------------------------------------------------------------
(* Claims about the bulk flag, checked under SpecBulk *)

RECURSIVE BooksOf(_)
\* the books of a set of records of subject_data
BooksOf(indexes) ==
    IF indexes = {} THEN 0
    ELSE LET k == CHOOSE k \in indexes : TRUE
         IN  subject_data[k].sassu + BooksOf(indexes \ {k})

\* the books of the product ordered on the day
BooksOn(product, date) ==
    BooksOf({k \in 1..Len(subject_data) :
                subject_data[k].shohinmei = product /\ subject_data[k].chumonbi = date})

\* the maximum over the days of the product's books of the day
PeakDayQuantity(product) ==
    LET days == {subject_data[k].chumonbi : k \in 1..Len(subject_data)}
    IN  CHOOSE q \in {BooksOn(product, d) : d \in days} :
            \A d \in days : BooksOn(product, d) <= q

\* the lines display_subject_materials writes for subject_data under a threshold
LinesUnder(threshold) ==
    display_subject_materials(subject_data, "sugaku", SumSassu(subject_data), threshold,
                              FALSE)

\* C8: every product of the records has one line, whose peak day is flagged bulk
\* exactly when the product's peak-day quantity is >= the bulk threshold of the call;
\* and for thresholds t1 <= t2 a peak day flagged bulk under t2 is flagged bulk
\* under t1.
C8_BulkThreshold ==
    pc = "done" =>
        /\ {written[k].product : k \in 1..Len(written)}
              = {subject_data[k].shohinmei : k \in 1..Len(subject_data)}
        /\ \A k, l \in 1..Len(written) : written[k].product = written[l].product => k = l
        /\ \A k \in 1..Len(written) :
              /\ written[k].max_day_books = PeakDayQuantity(written[k].product)
              /\ written[k].bulk <=> PeakDayQuantity(written[k].product) >= bulk_threshold
        /\ \A t1 \in BulkThresholds, t2 \in BulkThresholds :
              t1 <= t2 =>
                  \A k \in 1..Len(written) :
                      LinesUnder(t2)[k].bulk => LinesUnder(t1)[k].bulk

\* a product whose books of one day, from two records, are exactly the default
\* threshold, flagged bulk, beside a product below the threshold, not flagged
C8_Witness ==
    /\ pc = "done"
    /\ bulk_threshold = BULK_THRESHOLD_DEFAULT
    /\ Len(subject_data) > 1
    /\ \E k \in 1..Len(written) :
          /\ written[k].max_day_books = bulk_threshold
          /\ written[k].bulk

=============================================================================
